---- MODULE Spec2Model ----
(***************************************************************************)
(* Model of experiment_scripts/run_basic_disk_job.py: a sequential sweep   *)
(* over spark.monotasks.threadsPerDisk.  Each trial rewrites the Spark     *)
(* configuration with sed, copies it to the workers, clears the buffer     *)
(* cache, starts Spark, runs DiskThroughputExperiment, stops Spark and     *)
(* archives the logs.  Every external command either succeeds or makes     *)
(* subprocess.check_call raise, which ends the script.                     *)
(*                                                                         *)
(* Text is modelled as a sequence of symbols: one symbol per character for *)
(* everything the script formats itself (numbers, separators), and one     *)
(* opaque symbol for each literal path or word that contains no space.     *)
(***************************************************************************)
EXTENDS Integers, Sequences, FiniteSets, TLC

\* ------------------------------------------------------------------ bounds
\* Number of workers returned by utils.get_workers().
NumWorkers == 2
\* Longest configuration file (in lines) the sweep is started on.
MaxConfLines == 2
\* Largest threadsPerDisk value a configuration line holds before the sweep.
MaxInitValue == 2

\* ------------------------------------------------------- program constants
num_partitions == 128
items_per_partition == 3000000
longs_per_item == 6
num_iterations == 10
num_threads_per_disk_values == <<1, 2, 4, 8, 16>>

workers == 1..NumWorkers

\* ------------------------------------------------------------ text helpers
Digits == <<"0", "1", "2", "3", "4", "5", "6", "7", "8", "9">>

\* "%s" % n and str(n) for a non-negative integer: its decimal digits.
RECURSIVE Str(_)
Str(n) == IF n < 10 THEN <<Digits[n + 1]>>
                    ELSE Str(n \div 10) \o <<Digits[(n % 10) + 1]>>

\* sep.join(strs)
RECURSIVE Join(_, _)
Join(strs, sep) ==
  IF strs = <<>> THEN <<>>
  ELSE IF Len(strs) = 1 THEN strs[1]
  ELSE strs[1] \o sep \o Join(Tail(strs), sep)

\* What the shell (shell=True) makes of a command line: words split at spaces.
RECURSIVE ShellWordsFrom(_, _, _)
ShellWordsFrom(cmd, word, acc) ==
  IF cmd = <<>> THEN (IF word = <<>> THEN acc ELSE Append(acc, word))
  ELSE IF Head(cmd) = " "
       THEN ShellWordsFrom(Tail(cmd), <<>>,
                           IF word = <<>> THEN acc ELSE Append(acc, word))
       ELSE ShellWordsFrom(Tail(cmd), Append(word, Head(cmd)), acc)

ShellWords(cmd) == ShellWordsFrom(cmd, <<>>, <<>>)

\* ---------------------------------------------------------- command lines
spark_defaults_filepath == <<"spark/conf/spark-defaults.conf">>
copy_dir_command == <<"spark-ec2/copy-dir">>
stop_all_command == <<"spark/sbin/stop-all.sh">>
start_all_command == <<"spark/sbin/start-all.sh">>
run_example_command == <<"spark/bin/run-example">>
run_on_slaves_command == <<"ephemeral-hdfs/sbin/slaves.sh">>
clear_cache_command == <<"spark-ec2/clear-cache.sh">>

SettingKey == "spark.monotasks.threadsPerDisk"

\* The text sed writes in place of a matching line: the key, a space, "%s" % v.
change_num_threads_command(v) ==
  <<"sed", " ", "-i", " ", "s/spark\\.monotasks\\.threadsPerDisk .*/",
    SettingKey, " ">> \o Str(v) \o <<"/", " ">> \o spark_defaults_filepath

copy_config_command ==
  copy_dir_command \o <<" ", "--delete", " ">> \o spark_defaults_filepath

clear_slave_cache_command ==
  run_on_slaves_command \o <<" ">> \o clear_cache_command

parameters ==
  <<num_partitions, items_per_partition, longs_per_item, num_iterations>>

stringified_parameters == [k \in 1..Len(parameters) |-> Str(parameters[k])]

experiment_command ==
  run_example_command \o <<" ", "monotasks.disk.DiskThroughputExperiment", " ">>
    \o Join(stringified_parameters, <<" ">>)

\* Variant: the swept value is put in front of the fixed parameters.
ArchiveLabel_ValueFirst(v) == <<Str(v)>> \o stringified_parameters

\* The list passed to utils.copy_and_zip_all_logs for the trial with value v.
ArchiveLabel(v) == stringified_parameters \o <<Str(v)>>

\* ------------------------------------------------------ configuration file
\* A line is a setting: its key and the text after the space.
OtherLine == [key |-> "spark.other", val |-> <<"x">>]
SettingLine(val) == [key |-> SettingKey, val |-> val]

\* Variant: only the first line holding the key is rewritten.
SedSubstitute_FirstLineOnly(file, text) ==
  [k \in 1..Len(file) |->
     IF /\ file[k].key = SettingKey
        /\ \A j \in 1..(k - 1) : file[j].key # SettingKey
     THEN SettingLine(text) ELSE file[k]]

\* sed -i "s/spark\.monotasks\.threadsPerDisk .*/spark.monotasks.threadsPerDisk V/":
\* every line holding the key has the rest of the line replaced.
SedSubstitute(file, text) ==
  [k \in 1..Len(file) |->
     IF file[k].key = SettingKey THEN SettingLine(text) ELSE file[k]]

\* The values a configuration file holds for the swept setting.
SettingValues(file) ==
  {file[k].val : k \in {j \in 1..Len(file) : file[j].key = SettingKey}}

\* ------------------------------------------------------------------ state
VARIABLES
  pc,          \* the statement of the loop body the script is about to run
  trial,       \* index of num_threads_per_disk in num_threads_per_disk_values
  conf,        \* contents of spark-defaults.conf on the master
  workerConf,  \* contents of spark-defaults.conf on each worker
  cached,      \* per worker: does the OS buffer cache hold workload data
  service,     \* "stopped" or "running"
  archives,    \* labels of the log bundles produced, oldest first
  issued       \* the commands run so far, each with its outcome

vars == <<pc, trial, conf, workerConf, cached, service, archives, issued>>

num_threads_per_disk == num_threads_per_disk_values[trial]

\* ------------------------------------------------- effects of the commands
\* Variant: the file is not pushed to the workers.
CopyDir_NotPushed(file) == workerConf

\* copy-dir --delete FILE: every worker's copy becomes the master's file.
CopyDir(file) == [w \in workers |-> file]

\* Variant: clear-cache.sh is run without the dispatcher, on one machine only.
ClearCache_OneMachine == [w \in workers |-> IF w = 1 THEN FALSE ELSE cached[w]]

\* slaves.sh clear-cache.sh: the buffer cache of every worker is dropped.
ClearCache == [w \in workers |-> FALSE]

\* DiskThroughputExperiment writes and reads its data on every worker.
WorkloadCache == [w \in workers |-> TRUE]

\* utils.copy_and_zip_all_logs(label, workers) leaves one log bundle named by
\* the label.
copy_and_zip_all_logs(label) == Append(archives, label)

\* start-all.sh and stop-all.sh report success only once the whole service is
\* up, respectively down; a failed command leaves the service as it was.
StartAllEffect(s) == "running"
StopAllEffect(s) == "stopped"

\* ------------------------------------------------------------ control flow
\* Variant: the cache is cleared before the configuration is copied.
NextStep_EvictBeforePropagate(step) ==
  CASE step = "configure" -> "evict"
    [] step = "evict"     -> "propagate"
    [] step = "propagate" -> "start"
    [] step = "start"     -> "run"
    [] step = "run"       -> "stop"
    [] step = "stop"      -> "archive"
    [] step = "archive"   -> "configure"

\* Variant: the service is never stopped.
NextStep_NoStop(step) ==
  CASE step = "configure" -> "propagate"
    [] step = "propagate" -> "evict"
    [] step = "evict"     -> "start"
    [] step = "start"     -> "run"
    [] step = "run"       -> "archive"
    [] step = "stop"      -> "archive"
    [] step = "archive"   -> "configure"

\* Variant: the logs are archived before the service is stopped.
NextStep_ArchiveBeforeStop(step) ==
  CASE step = "configure" -> "propagate"
    [] step = "propagate" -> "evict"
    [] step = "evict"     -> "start"
    [] step = "start"     -> "run"
    [] step = "run"       -> "archive"
    [] step = "archive"   -> "stop"
    [] step = "stop"      -> "configure"

\* Variant: the service is stopped before the workload is run.
NextStep_StopBeforeRun(step) ==
  CASE step = "configure" -> "propagate"
    [] step = "propagate" -> "evict"
    [] step = "evict"     -> "start"
    [] step = "start"     -> "stop"
    [] step = "stop"      -> "run"
    [] step = "run"       -> "archive"
    [] step = "archive"   -> "configure"

\* The statements of the loop body in textual order; after the last one the
\* for loop takes the next value.
NextStep(step) ==
  CASE step = "configure" -> "propagate"
    [] step = "propagate" -> "evict"
    [] step = "evict"     -> "start"
    [] step = "start"     -> "run"
    [] step = "run"       -> "stop"
    [] step = "stop"      -> "archive"
    [] step = "archive"   -> "configure"

\* Variant: subprocess.call, which returns the exit status instead of raising.
check_call_StatusIgnored(ok, next) == next

\* subprocess.check_call: a non-zero exit status raises CalledProcessError,
\* which nothing catches, so the script ends there.
check_call(ok, next) == IF ok THEN next ELSE "aborted"

\* Variant: the loop stops one value early.
LoopExhausted_OneEarly == trial = Len(num_threads_per_disk_values) - 1

\* The for loop has no value left after the current one.
LoopExhausted == trial = Len(num_threads_per_disk_values)

\* Where control is after the statement `step` returned.
Continue(step) ==
  IF NextStep(step) = "configure"
  THEN (IF LoopExhausted THEN "done" ELSE "configure")
  ELSE NextStep(step)

NextTrial(step, ok) ==
  IF ok /\ NextStep(step) = "configure" /\ ~LoopExhausted
  THEN trial + 1 ELSE trial

Ran(step, cmd, ok) ==
  Append(issued, [trial |-> trial, step |-> step, cmd |-> cmd, ok |-> ok])

\* ------------------------------------------------------------------- Init
InitValues == {Str(v) : v \in 1..MaxInitValue}

InitLines == {OtherLine} \cup {SettingLine(t) : t \in InitValues}

\* spark-defaults.conf before the sweep: it holds the swept setting at least
\* once (sed rewrites an existing line, it never adds one).
ConfFiles ==
  {f \in UNION {[1..n -> InitLines] : n \in 1..MaxConfLines} :
     \E k \in 1..Len(f) : f[k].key = SettingKey}

\* A copy left on a worker by an earlier deployment.
StaleFile == <<SettingLine(Str(0))>>

Init ==
  /\ pc = "configure"
  /\ trial = 1
  /\ conf \in ConfFiles
  /\ workerConf \in [workers -> {conf, StaleFile}]
  /\ cached \in [workers -> BOOLEAN]
  /\ service = "stopped"
  /\ archives = <<>>
  /\ issued = <<>>

\* ---------------------------------------------------------------- actions
Configure ==
  /\ pc = "configure"
  /\ \E ok \in BOOLEAN :
       /\ conf' = IF ok THEN SedSubstitute(conf, Str(num_threads_per_disk))
                        ELSE conf
       /\ issued' = Ran("configure",
                        change_num_threads_command(num_threads_per_disk), ok)
       /\ pc' = check_call(ok, Continue("configure"))
       /\ trial' = NextTrial("configure", ok)
  /\ UNCHANGED <<workerConf, cached, service, archives>>

Propagate ==
  /\ pc = "propagate"
  /\ \E ok \in BOOLEAN :
       /\ workerConf' = IF ok THEN CopyDir(conf) ELSE workerConf
       /\ issued' = Ran("propagate", copy_config_command, ok)
       /\ pc' = check_call(ok, Continue("propagate"))
       /\ trial' = NextTrial("propagate", ok)
  /\ UNCHANGED <<conf, cached, service, archives>>

EvictCache ==
  /\ pc = "evict"
  /\ \E ok \in BOOLEAN :
       /\ cached' = IF ok THEN ClearCache ELSE cached
       /\ issued' = Ran("evict", clear_slave_cache_command, ok)
       /\ pc' = check_call(ok, Continue("evict"))
       /\ trial' = NextTrial("evict", ok)
  /\ UNCHANGED <<conf, workerConf, service, archives>>

StartAll ==
  /\ pc = "start"
  /\ \E ok \in BOOLEAN :
       /\ service' = IF ok THEN StartAllEffect(service) ELSE service
       /\ issued' = Ran("start", start_all_command, ok)
       /\ pc' = check_call(ok, Continue("start"))
       /\ trial' = NextTrial("start", ok)
  /\ UNCHANGED <<conf, workerConf, cached, archives>>

RunExperiment ==
  /\ pc = "run"
  /\ \E ok \in BOOLEAN :
       /\ cached' = IF ok THEN WorkloadCache ELSE cached
       /\ issued' = Ran("run", experiment_command, ok)
       /\ pc' = check_call(ok, Continue("run"))
       /\ trial' = NextTrial("run", ok)
  /\ UNCHANGED <<conf, workerConf, service, archives>>

StopAll ==
  /\ pc = "stop"
  /\ \E ok \in BOOLEAN :
       /\ service' = IF ok THEN StopAllEffect(service) ELSE service
       /\ issued' = Ran("stop", stop_all_command, ok)
       /\ pc' = check_call(ok, Continue("stop"))
       /\ trial' = NextTrial("stop", ok)
  /\ UNCHANGED <<conf, workerConf, cached, archives>>

\* utils.copy_and_zip_all_logs(label, workers): an exception it raises ends
\* the script like a failed check_call.
Archive ==
  /\ pc = "archive"
  /\ \E ok \in BOOLEAN :
       /\ archives' = IF ok THEN copy_and_zip_all_logs(ArchiveLabel(num_threads_per_disk))
                            ELSE archives
       /\ issued' = Ran("archive", ArchiveLabel(num_threads_per_disk), ok)
       /\ pc' = IF ok THEN Continue("archive") ELSE "aborted"
       /\ trial' = NextTrial("archive", ok)
  /\ UNCHANGED <<conf, workerConf, cached, service>>

Next ==
  \/ Configure
  \/ Propagate
  \/ EvictCache
  \/ StartAll
  \/ RunExperiment
  \/ StopAll
  \/ Archive

Spec == Init /\ [][Next]_vars

\* ------------------------------------------------- vocabulary of the claims
Steps ==
  <<"configure", "propagate", "evict", "start", "run", "stop", "archive">>

SweepValues == <<1, 2, 4, 8, 16>>
SweepTexts == << <<"1">>, <<"2">>, <<"4">>, <<"8">>, <<"1", "6">> >>
FixedTexts ==
  << <<"1", "2", "8">>, <<"3", "0", "0", "0", "0", "0", "0">>, <<"6">>,
     <<"1", "0">> >>

Last(seq) == seq[Len(seq)]

DigitValue(c) == CHOOSE d \in 0..9 : Digits[d + 1] = c

\* The integer a configuration value denotes.
RECURSIVE ParseInt(_)
ParseInt(text) ==
  IF Len(text) = 1 THEN DigitValue(text[1])
  ELSE 10 * ParseInt(SubSeq(text, 1, Len(text) - 1)) + DigitValue(Last(text))

\* The values of the swept setting a file holds, as integers.
ActiveValues(file) == {ParseInt(t) : t \in SettingValues(file)}

Sweeping == pc \notin {"done", "aborted"}

Failed(k) == ~issued[k].ok

Did(k, step, t) ==
  /\ issued[k].step = step
  /\ issued[k].trial = t
  /\ issued[k].ok

\* C1: fail-fast.  A command that reported failure is the last command the
\* script ever ran and the script is over: no later step of that trial and no
\* step of a later trial was run, the failed step was not retried and the
\* sweep did not continue.
C1_FailFast ==
  /\ \A k \in 1..Len(issued) :
       Failed(k) => k = Len(issued) /\ pc = "aborted" /\ ~ENABLED Next
  /\ pc = "aborted" => issued # <<>> /\ Failed(Len(issued))

C1_Witness ==
  /\ pc = "aborted"
  /\ trial = 2
  /\ Last(issued).step = "start"
  /\ Len(archives) = 1

\* C2: coverage.  A run that completes without error has produced exactly
\* five archives, the k-th tagged with the k-th of 1, 2, 4, 8, 16, so every
\* sweep value tags exactly one archive.
C2_Coverage ==
  pc = "done" =>
    /\ Len(archives) = 5
    /\ \A k \in 1..5 : Last(archives[k]) = SweepTexts[k]
    /\ \A v \in 1..5 :
         Cardinality({k \in 1..Len(archives) :
                        Last(archives[k]) = SweepTexts[v]}) = 1

C2_Witness == pc = "done" /\ Len(issued) = 35

\* C3: ordering and non-overlap.  The commands run so far are, in order, the
\* seven steps of trial 1, then the seven steps of trial 2, and so on; every
\* command but the last returned success before the next one was run, and
\* the script is about to run the step that follows.
C3_Ordering ==
  /\ \A k \in 1..Len(issued) :
       /\ issued[k].step = Steps[((k - 1) % 7) + 1]
       /\ issued[k].trial = ((k - 1) \div 7) + 1
       /\ k < Len(issued) => issued[k].ok
  /\ Sweeping =>
       /\ pc = Steps[(Len(issued) % 7) + 1]
       /\ trial = (Len(issued) \div 7) + 1

C3_Witness ==
  /\ pc = "propagate"
  /\ trial = 2
  /\ Did(6, "stop", 1)
  /\ Did(7, "archive", 1)
  /\ Did(8, "configure", 2)

\* C4 as stated: while the sweep runs, the configuration file holds exactly
\* one value for the swept setting, the value of the current trial.
C4_SingleActiveValue_Original ==
  Sweeping => ActiveValues(conf) = {SweepValues[trial]}

\* C4 amended: from the moment a trial's configure step has succeeded until
\* the trial ends, the configuration file holds exactly one value for the
\* swept setting, the value of that trial; while the configure step of a later
\* trial has not yet run, it still holds the value of the previous trial.
C4_SingleActiveValue ==
  /\ pc \in {"propagate", "evict", "start", "run", "stop", "archive"} =>
       ActiveValues(conf) = {SweepValues[trial]}
  /\ pc = "configure" /\ trial > 1 =>
       ActiveValues(conf) = {SweepValues[trial - 1]}

C4_Witness ==
  /\ pc = "configure"
  /\ trial = 3
  /\ Len(conf) = 2
  /\ Cardinality(SettingValues(conf)) = 1
  /\ conf[1].key = SettingKey
  /\ conf[2].key = SettingKey

\* C5: archive tagging.  Every label passed to the archive step is the four
\* fixed parameters 128, 3000000, 6, 10 as text in that order followed by the
\* text of the trial's swept value, and the words after the workload name on
\* every workload command line are those four fixed parameters and nothing
\* else.
C5_ArchiveTagging ==
  \A k \in 1..Len(issued) :
    /\ issued[k].step = "archive" =>
         issued[k].cmd = FixedTexts \o <<SweepTexts[issued[k].trial]>>
    /\ issued[k].step = "run" =>
         LET words == ShellWords(issued[k].cmd)
         IN  /\ Len(words) = 6
             /\ words[2] = <<"monotasks.disk.DiskThroughputExperiment">>
             /\ SubSeq(words, 3, 6) = FixedTexts

C5_Witness ==
  /\ Len(issued) = 35
  /\ Last(issued).step = "archive"
  /\ Last(issued).cmd[5] = <<"1", "6">>
  /\ issued[33].step = "run"

\* C6: service isolation.  While a trial's configuration is being applied
\* (configure, propagate, evict cache) the service is stopped, and whenever
\* the service is running the current trial's start-service step has
\* succeeded and no stop-service step has succeeded since.
C6_ServiceIsolation ==
  /\ pc \in {"configure", "propagate", "evict", "start"} => service = "stopped"
  /\ service = "running" =>
       \E k \in 1..Len(issued) :
         /\ Did(k, "start", trial)
         /\ \A j \in (k + 1)..Len(issued) :
              /\ issued[j].trial = trial
              /\ ~(issued[j].step = "stop" /\ issued[j].ok)

C6_Witness ==
  /\ pc = "evict"
  /\ trial = 2
  /\ service = "stopped"
  /\ Did(4, "start", 1)
  /\ Did(6, "stop", 1)

\* C7: archive only after a clean stop.  Every archive step was run right
\* after the successful stop-service step of its trial, which followed the
\* successful workload of that trial; the service is stopped when the archive
\* step is about to run; and every trial before the current one has its
\* archive.
C7_ArchiveAfterCleanStop ==
  /\ pc = "archive" => service = "stopped"
  /\ \A k \in 1..Len(issued) :
       issued[k].step = "archive" =>
         /\ k > 2
         /\ Did(k - 1, "stop", issued[k].trial)
         /\ Did(k - 2, "run", issued[k].trial)
  /\ \A k \in 1..Len(issued) :
       issued[k].step = "configure" /\ issued[k].trial > 1 =>
         Did(k - 1, "archive", issued[k].trial - 1)
  /\ Len(archives) >= trial - 1
  /\ \A t \in 1..(trial - 1) :
       t <= Len(archives) => Last(archives[t]) = SweepTexts[t]

C7_Witness ==
  /\ pc = "configure"
  /\ trial = 3
  /\ Len(archives) = 2
  /\ Did(14, "archive", 2)

\* C8: correctly configured workload.  Whenever the workload of a trial is
\* about to run or has been run, the configuration file on the master holds
\* the trial's value as the only value of the swept setting and the copy on
\* every worker is identical to the master's file.
C8_ConfiguredWorkload ==
  \/ pc = "run"
  \/ (issued # <<>> /\ Last(issued).step = "run")
  =>
    /\ ActiveValues(conf) = {SweepValues[trial]}
    /\ \A w \in workers :
         /\ workerConf[w] = conf
         /\ ActiveValues(workerConf[w]) = {SweepValues[trial]}

C8_Witness ==
  /\ pc = "stop"
  /\ trial = 4
  /\ Last(issued).step = "run"
  /\ \A w \in workers : ActiveValues(workerConf[w]) = {8}

EvictsOf(t) ==
  {k \in 1..Len(issued) : issued[k].step = "evict" /\ issued[k].trial = t}

\* C9: cache-cold workload.  A trial whose service was started has exactly
\* one cache-clear command, a successful one, run before the start and after
\* every workload of an earlier trial; no workload was run between it and the
\* trial's own workload; and when the workload is about to run no worker's
\* buffer cache holds workload data.
C9_CacheCold ==
  /\ \A s \in 1..Len(issued) :
       issued[s].step = "start" =>
         /\ Cardinality(EvictsOf(issued[s].trial)) = 1
         /\ \A e \in EvictsOf(issued[s].trial) :
              /\ e < s
              /\ issued[e].ok
              /\ \A r \in 1..Len(issued) :
                   issued[r].step = "run" =>
                     \/ r < e /\ issued[r].trial < issued[e].trial
                     \/ r > s /\ issued[r].trial = issued[e].trial
                     \/ issued[r].trial > issued[e].trial
  /\ pc = "run" => \A w \in workers : ~cached[w]

C9_Witness ==
  /\ pc = "run"
  /\ trial = 2
  /\ EvictsOf(2) = {10}
  /\ Did(5, "run", 1)

AbortedAfterStart ==
  /\ pc = "aborted"
  /\ Last(issued).step \in {"run", "stop"}

\* C10: no cleanup on abort.  When the sweep has aborted on a failed workload
\* or a failed stop-service command, the failed command is the last command
\* run, no stop-service command of that trial has succeeded, the service is
\* still running, the configuration still holds the failed trial's value and
\* there is no archive for that trial.
C10_NoCleanupOnAbort ==
  AbortedAfterStart =>
    /\ Failed(Len(issued))
    /\ Last(issued).trial = trial
    /\ \A k \in 1..Len(issued) : ~Did(k, "stop", trial)
    /\ service = "running"
    /\ ActiveValues(conf) = {SweepValues[trial]}
    /\ Len(archives) = trial - 1
    /\ \A k \in 1..Len(archives) : Last(archives[k]) # SweepTexts[trial]

C10_Witness ==
  /\ AbortedAfterStart
  /\ Last(issued).step = "stop"
  /\ trial = 3
  /\ service = "running"

====
